---- MODULE Spec2Model ----
(***************************************************************************)
(* Model of proofpoint_client.client.ProofpointApiClient: the token        *)
(* lifecycle (_refresh_token, _ensure_valid_token), the request dispatcher *)
(* (_request) and the error mapping (_handle_error).                       *)
(*                                                                         *)
(* A call is split at the points where the code blocks or where another    *)
(* thread can observe the client's fields in between: the token POST       *)
(* (client.py:70), the two assignments of _refresh_token (client.py:88 and *)
(* client.py:91), the read of the token for the header (client.py:135) and *)
(* the API transport call (client.py:138).                                 *)
(*                                                                         *)
(* Environment: the clock (datetime.utcnow) never goes backwards; a 200    *)
(* answer of the token endpoint is a JSON object with a non-empty string   *)
(* access_token and an optional integer expires_in.                        *)
(***************************************************************************)
EXTENDS Integers, FiniteSets, Sequences, TLC

\* ---------------------------------------------------------------- bounds
MaxTicks == 3
MaxCalls == 2
MaxCtors == 2

\* Python's Optional[x]: None is the empty set, a value x is {x}.
None == {}
Some(x) == {x}
Val(o) == CHOOSE x \in o : TRUE

\* The threads that may call into one client instance. MainCaller constructs it.
MainCaller == "c1"
Callers == {"c1", "c2"}

\* How far the clock may jump between two steps (seconds).
ClockSteps == {1, 3299}

\* ------------------------------------------------------- program constants
ExpiryBuffer == 300
DefaultExpiresIn == 3600

\* Exception classes (exceptions.py) and the two built-in exceptions that can
\* escape _request.
Generic == "ProofpointApiException"
Auth == "ProofpointApiAuthError"
BadRequest == "ProofpointApiBadRequestError"
RateLimit == "ProofpointApiRateLimitError"
AttributeError == "AttributeError"
ValueError == "ValueError"
TaxonomyKinds == {Generic, Auth, BadRequest, RateLimit}

\* ------------------------------------------------------------ HTTP bodies
EmptyBody == ""
JsonWithMsg == "{\"errorMessage\":\"quota\"}"
JsonNoMsg == "{\"count\":3}"
JsonArray == "[1]"
NonJson == "<html>oops</html>"
Bodies == {EmptyBody, JsonWithMsg, JsonNoMsg, JsonArray, NonJson}

\* response.json() on a body: "invalid" (raises a JSON decode error), "object"
\* (a dict) or "nonobject" (any other JSON value).
JsonShape(text) ==
  CASE text = JsonWithMsg -> "object"
    [] text = JsonNoMsg -> "object"
    [] text = JsonArray -> "nonobject"
    [] OTHER -> "invalid"

\* error_data.get('errorMessage', response.text) on a dict.
GetErrorMessage(text) == IF text = JsonWithMsg THEN "quota" ELSE text

\* ProofpointApiException.__init__: the fields an exception carries.
Exc(kind, message, status_code, response_text) ==
  [outcome |-> "raise", kind |-> kind, message |-> message,
   status |-> status_code, body |-> response_text]

Returned(kind, value) ==
  [outcome |-> "return", kind |-> kind, message |-> <<value>>,
   status |-> None, body |-> None]

NoResult == [outcome |-> "none", kind |-> "none", message |-> << >>,
             status |-> None, body |-> None]

\* ------------------------------------------------------ the token endpoint
TokenValues == {"tokA", "tokB"}
ExpiresInChoices == {None, Some(3600), Some(301), Some(300), Some(100)}
TokenFailStatuses == {201, 401, 500}

TokenResponse(transport, status, text, tok, declared) ==
  [transport |-> transport, status |-> status, text |-> text,
   access_token |-> tok, expires_in |-> declared]

NoTokenResponse == TokenResponse(FALSE, 0, "", "", None)
TokenTransportFailure == TokenResponse(TRUE, 0, "", "", None)

TokenResponses ==
  {TokenTransportFailure}
  \cup {TokenResponse(FALSE, s, "invalid_client", "", None) : s \in TokenFailStatuses}
  \cup {TokenResponse(FALSE, 200, "token_json", v, d) :
          v \in TokenValues, d \in ExpiresInChoices}

\* ---------------------------------------------------------- the API server
ApiResponse(transport, status, text) ==
  [transport |-> transport, status |-> status, text |-> text]

ApiTransportFailure == ApiResponse(TRUE, 0, "")
ErrorStatuses == {400, 401, 403, 404, 429, 500, 599}
BodyStatuses == {400, 500}
OkStatuses == {200, 399, 600}

ApiResponses ==
  {ApiTransportFailure}
  \cup {ApiResponse(FALSE, s, JsonWithMsg) : s \in ErrorStatuses}
  \cup {ApiResponse(FALSE, s, b) : s \in BodyStatuses, b \in Bodies}
  \cup {ApiResponse(FALSE, s, JsonNoMsg) : s \in OkStatuses}
  \cup {ApiResponse(FALSE, 200, b) : b \in {EmptyBody, NonJson}}

\* ------------------------------------------------------- _refresh_token
\* `not x` on an Optional[str]: None and the empty string are falsy.
Falsy(o) == o = None \/ o = Some("")

\* Mutants of RefreshRaises: the status and body are dropped; the error is the
\* one _request makes of a transport failure; a transport failure is reported
\* as an authentication error; every failure is the base exception; the
\* status of the answer is not looked at.
RefreshRaises_NoStatus(resp) ==
  IF resp.transport
    THEN Exc(Generic, <<"Failed to obtain access token: ", "RequestException">>,
             None, None)
    ELSE IF resp.status # 200
      THEN Exc(Auth, <<"Failed to obtain access token">>, None, None)
      ELSE NoResult

RefreshRaises_Wrapped(resp) ==
  IF resp.transport \/ resp.status # 200
    THEN Exc(Generic, <<"Request failed: ", "RequestException">>, None, None)
    ELSE NoResult

RefreshRaises_TransportAsAuth(resp) ==
  IF resp.transport
    THEN Exc(Auth, <<"Failed to obtain access token">>, None, None)
    ELSE IF resp.status # 200
      THEN Exc(Auth, <<"Failed to obtain access token">>,
               Some(resp.status), Some(resp.text))
      ELSE NoResult

RefreshRaises_AllGeneric(resp) ==
  IF resp.transport
    THEN Exc(Generic, <<"Failed to obtain access token: ", "RequestException">>,
             None, None)
    ELSE IF resp.status # 200
      THEN Exc(Generic, <<"Failed to obtain access token">>,
               Some(resp.status), Some(resp.text))
      ELSE NoResult

RefreshRaises_IgnoreStatus(resp) ==
  IF resp.transport
    THEN Exc(Generic, <<"Failed to obtain access token: ", "RequestException">>,
             None, None)
    ELSE NoResult

\* client.py:70-94: what _refresh_token raises for a token endpoint answer,
\* NoResult when it raises nothing.
RefreshRaises(resp) ==
  IF resp.transport
    THEN Exc(Generic, <<"Failed to obtain access token: ", "RequestException">>,
             None, None)
    ELSE IF resp.status # 200
      THEN Exc(Auth, <<"Failed to obtain access token">>,
               Some(resp.status), Some(resp.text))
      ELSE NoResult

\* Mutant of ExpiresIn: a missing expires_in counts as 0.
ExpiresIn_NoDefault(resp) ==
  IF resp.expires_in = None THEN 0 ELSE Val(resp.expires_in)

\* client.py:90: token_data.get("expires_in", 3600)
ExpiresIn(resp) ==
  IF resp.expires_in = None THEN DefaultExpiresIn ELSE Val(resp.expires_in)

\* Mutant of ExpiryOf: the safety buffer is forgotten.
ExpiryOf_NoBuffer(t, expires_in) == t + expires_in

\* Mutant of ExpiryOf: an expiry is never put before the time of the refresh.
ExpiryOf_Clamped(t, expires_in) ==
  IF expires_in < ExpiryBuffer THEN t ELSE t + (expires_in - ExpiryBuffer)

\* client.py:91: utcnow() + timedelta(seconds=expires_in - 300)
ExpiryOf(t, expires_in) == t + (expires_in - ExpiryBuffer)

\* Mutants of NeedsRefresh: an exclusive boundary; no look at the expiry.
NeedsRefresh_Strict(tok, expiry, t) ==
  IF Falsy(tok) \/ expiry = None THEN TRUE ELSE t > Val(expiry)

NeedsRefresh_OnlyWhenAbsent(tok, expiry, t) == Falsy(tok) \/ expiry = None

\* Mutant of NeedsRefresh: every call refreshes.
NeedsRefresh_Always(tok, expiry, t) == TRUE

\* client.py:98-101: the condition under which _ensure_valid_token refreshes.
NeedsRefresh(tok, expiry, t) ==
  IF Falsy(tok) \/ expiry = None THEN TRUE ELSE t >= Val(expiry)

\* ------------------------------------------------------- _handle_error
\* client.py:152-156: the message; a JSON value that is no dict has no .get.
ErrorMessageOf(resp) ==
  IF JsonShape(resp.text) = "object" THEN GetErrorMessage(resp.text) ELSE resp.text

\* client.py:150-169
HandleError(resp) ==
  IF JsonShape(resp.text) = "nonobject"
    THEN Exc(AttributeError, <<"object has no attribute 'get'">>, None, None)
    ELSE IF resp.status = 400
      THEN Exc(BadRequest, <<ErrorMessageOf(resp)>>, Some(resp.status), Some(resp.text))
    ELSE IF resp.status \in {401, 403}
      THEN Exc(Auth, <<ErrorMessageOf(resp)>>, Some(resp.status), Some(resp.text))
    ELSE IF resp.status = 429
      THEN Exc(RateLimit, <<ErrorMessageOf(resp)>>, Some(resp.status), Some(resp.text))
    ELSE Exc(Generic, <<"An unknown error occurred: ", ErrorMessageOf(resp)>>,
             Some(resp.status), Some(resp.text))

\* client.py:140
IsErrorStatus(status) == 400 <= status /\ status < 600

\* client.py:143-148: the result of a response that is no error. response.json()
\* raises a JSON decode error on a body that is no JSON; whether that error is a
\* requests.exceptions.RequestException (caught at client.py:147) depends on
\* the installed requests version: decodeErrorCaught.
DecodeResponse(resp, return_json, decodeErrorCaught) ==
  IF ~return_json THEN Returned("bytes", resp.text)
  ELSE IF resp.text = EmptyBody THEN Returned("dict", "{}")
  ELSE IF JsonShape(resp.text) # "invalid" THEN Returned("json", resp.text)
  ELSE IF decodeErrorCaught
    THEN Exc(Generic, <<"Request failed: ", "JSONDecodeError">>, None, None)
    ELSE Exc(ValueError, <<"JSONDecodeError">>, None, None)

\* Mutant of RequestOutcome: a rate-limit answer is swallowed.
RequestOutcome_Swallow429(resp, return_json, decodeErrorCaught) ==
  IF resp.transport
    THEN Exc(Generic, <<"Request failed: ", "RequestException">>, None, None)
    ELSE IF IsErrorStatus(resp.status) /\ resp.status # 429
      THEN HandleError(resp)
      ELSE DecodeResponse(resp, return_json, decodeErrorCaught)

\* client.py:137-148: the outcome of _request once the transport call ended.
RequestOutcome(resp, return_json, decodeErrorCaught) ==
  IF resp.transport
    THEN Exc(Generic, <<"Request failed: ", "RequestException">>, None, None)
    ELSE IF IsErrorStatus(resp.status)
      THEN HandleError(resp)
      ELSE DecodeResponse(resp, return_json, decodeErrorCaught)

\* ------------------------------------------------- filters and payloads
\* Python values: None, str, int, list, a dataclass instance (its __dict__)
\* and dict.
PyNone == [tag |-> "None", v |-> << >>]
PyStr(s) == [tag |-> "str", v |-> <<s>>]
PyInt(n) == [tag |-> "int", v |-> <<n>>]
PyList(items) == [tag |-> "list", v |-> items]
PyObj(fields) == [tag |-> "dataclass", v |-> fields]
PyDict(items) == [tag |-> "dict", v |-> items]

\* bool(x), as in `if filters:` and `if sort_params:`.
Truthy(x) ==
  CASE x.tag = "None" -> FALSE
    [] x.tag = "list" -> Len(x.v) > 0
    [] x.tag = "str" -> x.v[1] # ""
    [] x.tag = "int" -> x.v[1] # 0
    [] OTHER -> TRUE

\* models.py: the fields of the dataclasses; every filter field defaults to None.
TimeRangeFilterFields == {"start", "end"}
IncidentFiltersFields ==
  {"time_range_filter", "incident_id_filters", "other_filters",
   "priority_filters", "source_filters", "disposition_filters",
   "verdict_filters", "confidence_filters"}
MessageFiltersFields ==
  IncidentFiltersFields \cup
  {"message_id_filters", "recipient_address_filters", "sender_address_filters",
   "subject_filters", "status_filters", "quarantine_filters",
   "tap_threat_filters", "tap_threat_type_filters"}

SortParam(colId, sort) == PyObj([colId |-> colId, sort |-> sort])
TimeRangeFilter(start, end) == PyObj([start |-> start, end |-> end])
IncidentFilters(time_range_filter, source_filters, priority_filters) ==
  PyObj([k \in IncidentFiltersFields |->
           CASE k = "time_range_filter" -> time_range_filter
             [] k = "source_filters" -> source_filters
             [] k = "priority_filters" -> priority_filters
             [] OTHER -> PyNone])
MessageFilters(time_range_filter, source_filters, subject_filters) ==
  PyObj([k \in MessageFiltersFields |->
           CASE k = "time_range_filter" -> time_range_filter
             [] k = "source_filters" -> source_filters
             [] k = "subject_filters" -> subject_filters
             [] OTHER -> PyNone])

\* Mutant of ConvertValue: a nested dataclass becomes its __dict__ as it is.
ConvertValue_Shallow(obj) ==
  IF obj.tag = "dataclass" THEN PyDict(obj.v) ELSE obj

\* client.py:14-19: convert_value inside asdict_factory.
RECURSIVE ConvertValue(_)
ConvertValue(obj) ==
  IF obj.tag = "list"
    THEN PyList([i \in 1..Len(obj.v) |-> ConvertValue(obj.v[i])])
    ELSE IF obj.tag = "dataclass"
      THEN PyDict([k \in {f \in DOMAIN obj.v : obj.v[f].tag # "None"} |->
                     ConvertValue(obj.v[k])])
      ELSE obj

\* client.py:13-20: asdict_factory(filters.__dict__.items())
AsdictFactory(data) ==
  PyDict([k \in {f \in DOMAIN data : data[f].tag # "None"} |-> ConvertValue(data[k])])

\* client.py:250: [p.__dict__ for p in sort_params]
SortParamsJson(sort_params) ==
  PyList([i \in 1..Len(sort_params.v) |-> PyDict(sort_params.v[i].v)])

\* client.py:243-250 and 392-399: the json= payload of search_incidents and
\* of search_messages.
SearchPayload(filters, start_row, end_row, sort_params) ==
  PyDict([k \in {"startRow", "endRow"}
                  \cup (IF Truthy(filters) THEN {"filters"} ELSE {})
                  \cup (IF Truthy(sort_params) THEN {"sortParams"} ELSE {}) |->
            CASE k = "startRow" -> PyInt(start_row)
              [] k = "endRow" -> PyInt(end_row)
              [] k = "filters" -> AsdictFactory(filters.v)
              [] OTHER -> SortParamsJson(sort_params)])

\* client.py:264: the json= payload of get_incident_count.
CountPayload(filters) == PyDict([filters |-> AsdictFactory(filters.v)])

\* The arguments the endpoint methods are called with.
TimeRangeChoices ==
  {PyNone, TimeRangeFilter(PyStr("2024-01-01 00:00:00"), PyStr("2024-01-08 00:00:00")),
   TimeRangeFilter(PyStr("2024-01-01 00:00:00"), PyNone)}
ListChoices == {PyNone, PyList(<< >>), PyList(<<PyStr("tap")>>)}
IncidentFiltersChoices ==
  {IncidentFilters(t, s, p) :
     t \in TimeRangeChoices, s \in ListChoices,
     p \in {PyNone, PyList(<<PyStr("high"), PyStr("low")>>)}}
MessageFiltersChoices ==
  {MessageFilters(t, s, p) :
     t \in TimeRangeChoices, s \in ListChoices,
     p \in {PyNone, PyList(<<PyStr("invoice")>>)}}
SortParamsChoices ==
  {PyNone, PyList(<< >>), PyList(<<SortParam(PyStr("createdAt"), PyStr("desc"))>>)}
StartRowChoices == {0, 10}
EndRowChoices == {5, 200}

\* A call of an endpoint method with its arguments.
EndpointCall(method, filters, start_row, end_row, sort_params) ==
  [method |-> method, filters |-> filters, start_row |-> start_row,
   end_row |-> end_row, sort_params |-> sort_params]

NoEndpointCall == EndpointCall("none", PyNone, 0, 0, PyNone)

EndpointCalls ==
  {EndpointCall("search_incidents", f, s, e, p) :
     f \in {PyNone} \cup IncidentFiltersChoices, s \in StartRowChoices,
     e \in EndRowChoices, p \in SortParamsChoices}
  \cup {EndpointCall("search_messages", f, s, e, p) :
     f \in {PyNone} \cup MessageFiltersChoices, s \in StartRowChoices,
     e \in EndRowChoices, p \in SortParamsChoices}
  \cup {EndpointCall("get_incident_count", f, 0, 0, PyNone) :
     f \in IncidentFiltersChoices}

\* ------------------------------------------------------- _request headers
\* The Authorization header a caller may pass in kwargs["headers"].
CallerAuthorization == {None, Some(<<"Basic ", "caller">>)}

\* str(self._access_token) inside the f-string of client.py:135.
TokenText(tok) == IF tok = None THEN "None" ELSE Val(tok)

\* Mutant of AuthorizationHeader: a header the caller passed is kept.
AuthorizationHeader_KeepSupplied(supplied, tok) ==
  IF supplied # None THEN supplied ELSE Some(<<"Bearer ", TokenText(tok)>>)

\* client.py:134-135: headers["Authorization"] = f"Bearer {self._access_token}"
AuthorizationHeader(supplied, tok) == Some(<<"Bearer ", TokenText(tok)>>)

\* ------------------------------------------------------------------ state
VARIABLES
  now,            \* datetime.utcnow(), in seconds
  ticks,          \* how often the clock has advanced
  constructed,    \* __init__ has returned a client
  access_token,   \* self._access_token
  token_expiry,   \* self._token_expiry
  pc,             \* where each caller is inside __init__ / _request
  call,           \* each caller's call in progress (its locals)
  tokenRequests,  \* POSTs sent to the token endpoint by this client instance
  lastGrant,      \* the last refresh that completed: when, and its answer
  lastResult,     \* what the call that ended last gave its caller, until the next call starts
  calls,          \* _request calls started on this client instance
  lateCalls,      \* those of them started at or after the held token's expiry
  ctors,          \* __init__ calls started
  ep,             \* the endpoint method called and its arguments
  payload         \* the json= payload that method hands to _request

vars == <<now, ticks, constructed, access_token, token_expiry, pc, call,
          tokenRequests, lastGrant, lastResult, calls, lateCalls, ctors,
          ep, payload>>

NoApiResponse == ApiResponse(FALSE, 0, "")

\* The locals of a call: op is "ctor" (__init__), "json" (_request with
\* return_json=True) or "raw" (return_json=False).
Call(op, refreshes, tresp, header) ==
  [op |-> op, refreshes |-> refreshes, tresp |-> tresp, header |-> header,
   supplied |-> None]

NoCall == Call("none", 0, NoTokenResponse, None)

\* What a call that ended left behind: the call, the number of API transport
\* calls it made, the API answer if any, and what the caller got.
Ended(c, k, sent, aresp, result) ==
  [caller |-> c, op |-> k.op, refreshes |-> k.refreshes, tresp |-> k.tresp,
   header |-> k.header, sent |-> sent, aresp |-> aresp, result |-> result]

NoEnded == Ended("none", NoCall, 0, NoApiResponse, NoResult)

\* The client before __init__ has run.
InitClient ==
  /\ now = 0
  /\ ticks = 0
  /\ constructed = FALSE
  /\ access_token = None
  /\ token_expiry = None
  /\ pc = [c \in Callers |-> "idle"]
  /\ call = [c \in Callers |-> NoCall]
  /\ tokenRequests = 0
  /\ lastGrant = None
  /\ lastResult = NoEnded
  /\ calls = 0
  /\ lateCalls = 0
  /\ ctors = 0

Init ==
  /\ InitClient
  /\ ep = NoEndpointCall
  /\ payload = None

Quiescent == \A c \in Callers : pc[c] = "idle"

\* The number of token requests in flight.
TokenRequestsInFlight == Cardinality({c \in Callers : pc[c] = "refresh_wait"})

\* datetime.utcnow() advances.
Tick(d) ==
  /\ ticks < MaxTicks
  /\ now' = now + d
  /\ ticks' = ticks + 1
  /\ UNCHANGED <<constructed, access_token, token_expiry, pc, call,
                 tokenRequests, lastGrant, lastResult, calls, lateCalls, ctors>>
  /\ UNCHANGED <<ep, payload>>

\* client.py:46-59 and 70: __init__ clears the token fields of a new instance
\* and calls _refresh_token, which posts to the token endpoint.
Construct(c) ==
  /\ c = MainCaller
  /\ ~constructed
  /\ Quiescent
  /\ ctors < MaxCtors
  /\ ctors' = ctors + 1
  /\ access_token' = None
  /\ token_expiry' = None
  /\ tokenRequests' = 1
  /\ calls' = 0
  /\ lateCalls' = 0
  /\ lastGrant' = None
  /\ pc' = [pc EXCEPT ![c] = "refresh_wait"]
  /\ call' = [call EXCEPT ![c] = Call("ctor", 1, NoTokenResponse, None)]
  /\ lastResult' = NoEnded
  /\ UNCHANGED <<now, ticks, constructed>>
  /\ UNCHANGED <<ep, payload>>

\* client.py:128-129 with 96-101 and 70: _request calls _ensure_valid_token,
\* which either posts to the token endpoint or returns at once.
Request(c, return_json) ==
  /\ constructed
  /\ pc[c] = "idle"
  /\ calls < MaxCalls
  /\ calls' = calls + 1
  /\ lateCalls' = IF token_expiry # None /\ now >= Val(token_expiry)
                    THEN lateCalls + 1 ELSE lateCalls
  /\ LET op == IF return_json THEN "json" ELSE "raw" IN
     IF NeedsRefresh(access_token, token_expiry, now)
       THEN /\ pc' = [pc EXCEPT ![c] = "refresh_wait"]
            /\ call' = [call EXCEPT ![c] = Call(op, 1, NoTokenResponse, None)]
            /\ tokenRequests' = tokenRequests + 1
       ELSE /\ pc' = [pc EXCEPT ![c] = "header"]
            /\ call' = [call EXCEPT ![c] = Call(op, 0, NoTokenResponse, None)]
            /\ UNCHANGED tokenRequests
  /\ lastResult' = NoEnded
  /\ UNCHANGED <<now, ticks, constructed, access_token, token_expiry,
                 lastGrant, ctors>>
  /\ UNCHANGED <<ep, payload>>

\* client.py:70-88 and 93-94: the token endpoint answers (or the transport
\* fails). A failure leaves _refresh_token, and with it __init__ or _request,
\* as the exception; a 200 is parsed and self._access_token assigned.
RefreshResponse(c, resp) ==
  /\ pc[c] = "refresh_wait"
  /\ LET k == [call[c] EXCEPT !.tresp = resp] IN
     IF RefreshRaises(resp) # NoResult
       THEN /\ lastResult' = Ended(c, k, 0, NoApiResponse, RefreshRaises(resp))
            /\ pc' = [pc EXCEPT ![c] = "idle"]
            /\ call' = [call EXCEPT ![c] = NoCall]
            /\ UNCHANGED access_token
       ELSE /\ access_token' = Some(resp.access_token)
            /\ pc' = [pc EXCEPT ![c] = "refresh_expiry"]
            /\ call' = [call EXCEPT ![c] = k]
            /\ UNCHANGED lastResult
  /\ UNCHANGED <<now, ticks, constructed, token_expiry, tokenRequests,
                 lastGrant, calls, lateCalls, ctors>>
  /\ UNCHANGED <<ep, payload>>

\* client.py:90-91: self._token_expiry is assigned; _refresh_token returns, to
\* __init__ (which returns the client) or to _request.
RefreshSetExpiry(c) ==
  /\ pc[c] = "refresh_expiry"
  /\ token_expiry' = Some(ExpiryOf(now, ExpiresIn(call[c].tresp)))
  /\ lastGrant' = Some([at |-> now, resp |-> call[c].tresp])
  /\ IF call[c].op = "ctor"
       THEN /\ constructed' = TRUE
            /\ lastResult' = Ended(c, call[c], 0, NoApiResponse,
                                   Returned("client", "ProofpointApiClient"))
            /\ pc' = [pc EXCEPT ![c] = "idle"]
            /\ call' = [call EXCEPT ![c] = NoCall]
       ELSE /\ pc' = [pc EXCEPT ![c] = "header"]
            /\ UNCHANGED <<constructed, lastResult, call>>
  /\ UNCHANGED <<now, ticks, access_token, tokenRequests, calls, lateCalls, ctors>>
  /\ UNCHANGED <<ep, payload>>

\* client.py:131-138: the Authorization header is built from
\* self._access_token and the request handed to the transport.
SendRequest(c, supplied) ==
  /\ pc[c] = "header"
  /\ call' = [call EXCEPT ![c].header = AuthorizationHeader(supplied, access_token),
                          ![c].supplied = supplied]
  /\ pc' = [pc EXCEPT ![c] = "api_wait"]
  /\ UNCHANGED <<now, ticks, constructed, access_token, token_expiry,
                 tokenRequests, lastGrant, lastResult, calls, lateCalls, ctors>>
  /\ UNCHANGED <<ep, payload>>

\* client.py:138-148: the API answers (or the transport fails) and _request
\* returns or raises.
Response(c, resp, decodeErrorCaught) ==
  /\ pc[c] = "api_wait"
  /\ lastResult' = Ended(c, call[c], 1, resp,
                         RequestOutcome(resp, call[c].op = "json", decodeErrorCaught))
  /\ pc' = [pc EXCEPT ![c] = "idle"]
  /\ call' = [call EXCEPT ![c] = NoCall]
  /\ UNCHANGED <<now, ticks, constructed, access_token, token_expiry,
                 tokenRequests, lastGrant, calls, lateCalls, ctors>>
  /\ UNCHANGED <<ep, payload>>

\* One caller at a time: the single-threaded use the client is written for.
SeqConstruct == Construct(MainCaller)
SeqRequest == \E rj \in BOOLEAN : Quiescent /\ Request(MainCaller, rj)
Refreshed == \E c \in Callers, r \in TokenResponses : RefreshResponse(c, r)
ExpirySet == \E c \in Callers : RefreshSetExpiry(c)
Sent == \E c \in Callers, h \in CallerAuthorization : SendRequest(c, h)
Answered ==
  \E c \in Callers, r \in ApiResponses, caught \in BOOLEAN : Response(c, r, caught)
ClockTick == \E d \in ClockSteps : Tick(d)

Next ==
  \/ SeqConstruct
  \/ SeqRequest
  \/ Refreshed
  \/ ExpirySet
  \/ Sent
  \/ Answered
  \/ ClockTick

Spec == Init /\ [][Next]_vars

\* Several callers share the client instance once it is constructed. The
\* answers are a subset of TokenResponses and ApiResponses: what an answer
\* says does not matter to how the callers' steps interleave.
ConcurrentTokenResponses ==
  {TokenTransportFailure}
  \cup {TokenResponse(FALSE, 200, "token_json", v, d) :
          v \in TokenValues, d \in {None, Some(301)}}

ConcurrentApiResponses ==
  {ApiTransportFailure, ApiResponse(FALSE, 200, JsonNoMsg),
   ApiResponse(FALSE, 401, JsonWithMsg)}

AnyRequest == \E c \in Callers : Request(c, TRUE)
AnyRefreshed ==
  \E c \in Callers, r \in ConcurrentTokenResponses : RefreshResponse(c, r)
AnyAnswered ==
  \E c \in Callers, r \in ConcurrentApiResponses : Response(c, r, TRUE)

NextConcurrent ==
  \/ SeqConstruct
  \/ AnyRequest
  \/ AnyRefreshed
  \/ ExpirySet
  \/ Sent
  \/ AnyAnswered
  \/ ClockTick

SpecConcurrent == Init /\ [][NextConcurrent]_vars

\* The payload builders on their own: an endpoint method is called with some
\* arguments and builds the payload it hands to _request.
clientVars == <<now, ticks, constructed, access_token, token_expiry, pc, call,
                tokenRequests, lastGrant, lastResult, calls, lateCalls, ctors>>

InitPayload ==
  /\ InitClient
  /\ ep \in EndpointCalls
  /\ payload = None

\* client.py:243-250
SearchIncidents ==
  /\ ep.method = "search_incidents"
  /\ payload = None
  /\ payload' = Some(SearchPayload(ep.filters, ep.start_row, ep.end_row, ep.sort_params))
  /\ UNCHANGED <<ep, clientVars>>

\* client.py:392-399
SearchMessages ==
  /\ ep.method = "search_messages"
  /\ payload = None
  /\ payload' = Some(SearchPayload(ep.filters, ep.start_row, ep.end_row, ep.sort_params))
  /\ UNCHANGED <<ep, clientVars>>

\* client.py:264
GetIncidentCount ==
  /\ ep.method = "get_incident_count"
  /\ payload = None
  /\ payload' = Some(CountPayload(ep.filters))
  /\ UNCHANGED <<ep, clientVars>>

NextPayload ==
  \/ SearchIncidents
  \/ SearchMessages
  \/ GetIncidentCount

SpecPayload == InitPayload /\ [][NextPayload]_vars

\* ------------------------------------------------------------------ claims
\* A call that has started and has not ended.
InCall(c) == pc[c] # "idle" /\ call[c].op \in {"json", "raw"}
\* The step in which caller c starts a _request.
StartsRequest(c) == pc[c] = "idle" /\ pc'[c] # "idle" /\ call'[c].op \in {"json", "raw"}
\* The call that ended last was a _request / an __init__.
RequestEnded == lastResult.op \in {"json", "raw"}
CtorEnded == lastResult.op = "ctor"
\* The call that ended last ended inside _refresh_token, which raised.
RefreshFailed ==
  /\ lastResult.op # "none"
  /\ lastResult.refreshes = 1
  /\ lastResult.tresp.transport \/ lastResult.tresp.status # 200

\* C1: on one client used by one caller at a time, while every call so far was
\* made strictly before the held token's expiry the token endpoint has been
\* contacted exactly once (by the constructor); once exactly one call was made
\* at or after the expiry it has been contacted exactly twice.
C1_RefreshOncePerExpiry ==
  constructed =>
    /\ (lateCalls = 0 => tokenRequests = 1)
    /\ (lateCalls = 1 => tokenRequests = 2)

\* Two calls have ended, the second one made after the expiry: two token requests.
C1_Witness ==
  /\ constructed /\ Quiescent /\ RequestEnded
  /\ calls = 2 /\ lateCalls = 1 /\ tokenRequests = 2
  /\ lastResult.refreshes = 1

\* C2: a call refreshes if and only if the clock has reached the expiry, which
\* is the time of the last successful refresh plus the declared expires_in
\* minus 300 seconds: with expires_in = 3600 a call at t0 + 3300 or later
\* refreshes and a call before t0 + 3300 does not.
C2_Boundary ==
  [][\A c \in Callers :
       (StartsRequest(c) /\ lastGrant # None) =>
         LET g == Val(lastGrant)
             refreshes == pc'[c] = "refresh_wait" /\ tokenRequests' = tokenRequests + 1
         IN /\ g.resp.expires_in # None =>
                 (refreshes <=> now >= g.at + Val(g.resp.expires_in) - 300)
            /\ g.resp.expires_in = Some(3600) => (refreshes <=> now >= g.at + 3300)
            /\ ~refreshes => pc'[c] = "header" /\ tokenRequests' = tokenRequests]_vars

\* A call made exactly 3300 seconds after a refresh that declared 3600 has
\* posted to the token endpoint.
C2_Witness ==
  \E c \in Callers :
    /\ InCall(c) /\ pc[c] = "refresh_wait"
    /\ lastGrant # None
    /\ Val(lastGrant).resp.expires_in = Some(3600)
    /\ now = Val(lastGrant).at + 3300

\* The error kind the taxonomy gives a status.
C3_KindFor(status) ==
  CASE status = 400 -> BadRequest
    [] status \in {401, 403} -> Auth
    [] status = 429 -> RateLimit
    [] OTHER -> Generic

\* C3: every API answer with a status in [400, 600) makes _request raise the
\* error kind its status alone determines.
C3_KindByStatus ==
  (/\ RequestEnded /\ lastResult.sent = 1 /\ ~lastResult.aresp.transport
   /\ 400 <= lastResult.aresp.status /\ lastResult.aresp.status < 600)
  => /\ lastResult.result.outcome = "raise"
     /\ lastResult.result.kind = C3_KindFor(lastResult.aresp.status)

\* C4: a token endpoint answer with a status other than 200 makes the refresh
\* raise ProofpointApiAuthError with that status and body, and the next
\* construction or call posts a new token request before anything else.
C4_NonOkAnswerRaisesAuth ==
  (RefreshFailed /\ ~lastResult.tresp.transport) =>
    /\ lastResult.result.outcome = "raise"
    /\ lastResult.result.kind = Auth
    /\ lastResult.result.status = Some(lastResult.tresp.status)
    /\ lastResult.result.body = Some(lastResult.tresp.text)
    /\ lastResult.sent = 0

C4_NextAttemptRefreshes ==
  \A c \in Callers :
    (/\ RefreshFailed /\ ~lastResult.tresp.transport
     /\ pc[c] = "idle" /\ pc'[c] # "idle")
    => /\ pc'[c] = "refresh_wait"
       /\ tokenRequests' = IF call'[c].op = "ctor" THEN 1 ELSE tokenRequests + 1

C4_FailedRefreshIsRetried ==
  [](C4_NonOkAnswerRaisesAuth) /\ [][C4_NextAttemptRefreshes]_vars

\* A call whose refresh was answered 500 has ended with the error, and the
\* client still holds the token of an earlier refresh.
C4_Witness ==
  /\ RequestEnded /\ RefreshFailed
  /\ lastResult.tresp.status = 500
  /\ lastResult.result.kind = Auth
  /\ access_token # None

\* C5: with several callers on one client, no two token requests are ever in
\* flight together, and no caller reads the token for its Authorization
\* header while another caller has assigned a new token value and not yet
\* its expiry.
C5_SingleFlight == TokenRequestsInFlight <= 1

C5_NoHeaderMidReplacement ==
  \A c \in Callers :
    (pc[c] = "header" /\ pc'[c] = "api_wait") =>
      ~\E d \in Callers \ {c} : pc[d] = "refresh_expiry"

C5_SerializedRefresh == [](C5_SingleFlight) /\ [][C5_NoHeaderMidReplacement]_vars

\* The second half of C5 alone.
C5_HeaderNeverMidReplacement == [][C5_NoHeaderMidReplacement]_vars

\* C6: no API transport call is made before _ensure_valid_token has returned,
\* and when it raises, the caller gets the error of _refresh_token as it was
\* raised and no API transport call is made.
C6_EnsureValidFirst ==
  /\ \A c \in Callers :
       (InCall(c) /\ pc[c] = "api_wait" /\ call[c].refreshes = 1) =>
         /\ ~call[c].tresp.transport /\ call[c].tresp.status = 200
         /\ access_token # None /\ token_expiry # None
  /\ (RequestEnded /\ RefreshFailed) =>
       /\ lastResult.sent = 0
       /\ lastResult.aresp = NoApiResponse
       /\ lastResult.header = None
       /\ lastResult.result.outcome = "raise"
       /\ lastResult.tresp.transport =>
            /\ lastResult.result.kind = Generic
            /\ lastResult.result.status = None
            /\ lastResult.result.body = None
            /\ lastResult.result.message[1] = "Failed to obtain access token: "
       /\ ~lastResult.tresp.transport =>
            /\ lastResult.result.kind = Auth
            /\ lastResult.result.status = Some(lastResult.tresp.status)
            /\ lastResult.result.body = Some(lastResult.tresp.text)
            /\ lastResult.result.message = <<"Failed to obtain access token">>

\* A call whose refresh was answered 401 has ended without an API call.
C6_Witness ==
  /\ RequestEnded /\ RefreshFailed
  /\ lastResult.tresp.status = 401
  /\ lastResult.sent = 0

\* C7: a call sends at most one token request and at most one API request,
\* and every failure (a failed refresh, a transport failure, any answer with
\* a status in [400, 600)) ends the call with an exception for the caller.
C7_NoRetry ==
  /\ tokenRequests <= 1 + calls
  /\ lastResult.op # "none" =>
       /\ lastResult.refreshes \in {0, 1}
       /\ lastResult.sent \in {0, 1}
       /\ lastResult.refreshes = 0 => lastResult.tresp = NoTokenResponse
       /\ lastResult.sent = 0 => lastResult.aresp = NoApiResponse
  /\ RefreshFailed => lastResult.result.outcome = "raise"
  /\ (/\ RequestEnded /\ lastResult.sent = 1
      /\ \/ lastResult.aresp.transport
         \/ (400 <= lastResult.aresp.status /\ lastResult.aresp.status < 600))
     => lastResult.result.outcome = "raise"

\* A call answered 429 has ended with an exception, after one API request and
\* no token request.
C7_Witness ==
  /\ RequestEnded
  /\ lastResult.sent = 1 /\ lastResult.refreshes = 0
  /\ lastResult.aresp.status = 429
  /\ lastResult.result.outcome = "raise"
  /\ tokenRequests = 1

\* C8: a transport failure, of the API call or of the token request, gives
\* the caller the base exception with no status code.
C8_TransportFailureIsGeneric ==
  /\ (lastResult.op # "none" /\ lastResult.refreshes = 1 /\ lastResult.tresp.transport) =>
       /\ lastResult.result.outcome = "raise"
       /\ lastResult.result.kind = Generic
       /\ lastResult.result.status = None
  /\ (lastResult.sent = 1 /\ lastResult.aresp.transport) =>
       /\ lastResult.result.outcome = "raise"
       /\ lastResult.result.kind = Generic
       /\ lastResult.result.status = None

\* A call has ended because the token endpoint could not be reached.
C8_Witness ==
  /\ RequestEnded /\ RefreshFailed
  /\ lastResult.tresp.transport
  /\ lastResult.result.kind = Generic

\* C9 as stated: every failure of a token refresh, a transport failure
\* included, reaches the caller as ProofpointApiAuthError.
C9_RefreshFailureIsAuth ==
  RefreshFailed => lastResult.result.kind = Auth

\* C9 amended: a refresh that fails because the token endpoint answered with
\* a status other than 200 reaches the caller as ProofpointApiAuthError; one
\* that fails because the token endpoint could not be reached reaches the
\* caller as the base ProofpointApiException.
C9_RefreshFailureKind ==
  RefreshFailed =>
    /\ lastResult.result.outcome = "raise"
    /\ lastResult.result.kind = IF lastResult.tresp.transport THEN Generic ELSE Auth
    /\ lastResult.result.kind \in TaxonomyKinds

\* A construction has failed because the token endpoint could not be reached,
\* and the caller got the base exception.
C9_Witness ==
  /\ CtorEnded /\ RefreshFailed
  /\ lastResult.tresp.transport
  /\ lastResult.result.kind = Generic
  /\ ~constructed

\* C10: __init__ sends exactly one token request and raises when that refresh
\* fails, so a constructed client holds a token value and an expiry before
\* its first call.
C10_ConstructedHoldsToken ==
  /\ constructed => (~Falsy(access_token) /\ token_expiry # None)
  /\ CtorEnded =>
       /\ lastResult.refreshes = 1 /\ tokenRequests = 1 /\ calls = 0
       /\ lastResult.result.outcome \in {"raise", "return"}
       /\ lastResult.result.outcome = "raise" <=>
            (lastResult.tresp.transport \/ lastResult.tresp.status # 200)
       /\ lastResult.result.outcome = "raise" <=> ~constructed

\* A construction has returned a client, which no call has used yet.
C10_Witness ==
  /\ CtorEnded /\ constructed /\ calls = 0
  /\ lastResult.result.outcome = "return"
  /\ access_token # None /\ token_expiry # None
\* No caller is between the two assignments of _refresh_token (client.py:88
\* and client.py:91).
NoRefreshHalfDone == \A c \in Callers : pc[c] # "refresh_expiry"

C12_BearerOfHeldToken ==
  /\ \A c \in Callers :
       pc[c] = "api_wait" =>
         /\ lastGrant # None
         /\ call[c].header = Some(<<"Bearer ", Val(lastGrant).resp.access_token>>)
         /\ access_token = Some(Val(lastGrant).resp.access_token)
  /\ (RequestEnded /\ lastResult.sent = 1) =>
       /\ lastGrant # None
       /\ lastResult.header = Some(<<"Bearer ", Val(lastGrant).resp.access_token>>)

\* A request is in flight for a caller that passed its own Authorization
\* header, after a refresh in the same call gave tokB.
C12_Witness ==
  \E c \in Callers :
    /\ pc[c] = "api_wait"
    /\ call[c].supplied = Some(<<"Basic ", "caller">>)
    /\ call[c].refreshes = 1 /\ calls = 2
    /\ call[c].header = Some(<<"Bearer ", "tokB">>)
\* The call that ended last got an answer from the API.
ApiAnswered == RequestEnded /\ lastResult.sent = 1 /\ ~lastResult.aresp.transport
AnswerIsError == 400 <= lastResult.aresp.status /\ lastResult.aresp.status < 600
\* The caller got an error of the taxonomy that carries the answer's status.
StatusDerivedError ==
  /\ lastResult.result.outcome = "raise"
  /\ lastResult.result.kind \in TaxonomyKinds
  /\ lastResult.result.status = Some(lastResult.aresp.status)

C13_ErrorStatusRaises == ApiAnswered => (AnswerIsError <=> StatusDerivedError)

C13_OtherStatusReturns ==
  (ApiAnswered /\ ~AnswerIsError) =>
    /\ lastResult.result.outcome = "return"
    /\ lastResult.op = "raw" =>
         /\ lastResult.result.kind = "bytes"
         /\ lastResult.result.message = <<lastResult.aresp.text>>
    /\ (lastResult.op = "json" /\ lastResult.aresp.text = "") =>
         /\ lastResult.result.kind = "dict"
         /\ lastResult.result.message = <<"{}">>
    /\ (lastResult.op = "json" /\ lastResult.aresp.text # "") =>
         /\ lastResult.result.kind = "json"
         /\ lastResult.result.message = <<lastResult.aresp.text>>

\* C13: _request raises a status-derived error exactly when the answer's
\* status is in [400, 600); for every other status it returns the parsed
\* JSON body when return_json is set ({} for an empty body) and the raw body
\* otherwise.
C13_DispatchOutcome == C13_ErrorStatusRaises /\ C13_OtherStatusReturns

\* C14: for every answer with a status in [400, 600) and every body shape the
\* caller gets one of the four error kinds, carrying the status, the raw body
\* and a message that is the errorMessage field of a JSON body that has one
\* and the raw body otherwise.
C14_ErrorCarriesStatusBodyMessage ==
  (ApiAnswered /\ AnswerIsError) =>
    /\ StatusDerivedError
    /\ lastResult.result.body = Some(lastResult.aresp.text)
    /\ lastResult.result.message # << >>
    /\ lastResult.result.message[Len(lastResult.result.message)] =
         IF lastResult.aresp.text = JsonWithMsg THEN "quota"
         ELSE lastResult.aresp.text
\* The JSON object made of a dataclass instance has exactly the fields of the
\* instance that are not None, at every level, with the values given.
RECURSIVE FieldsExactlyProvided(_, _)
FieldsExactlyProvided(obj, json) ==
  /\ json.tag = "dict"
  /\ DOMAIN json.v = {f \in DOMAIN obj.v : obj.v[f].tag # "None"}
  /\ \A f \in DOMAIN json.v :
       IF obj.v[f].tag = "dataclass"
         THEN FieldsExactlyProvided(obj.v[f], json.v[f])
         ELSE json.v[f] = obj.v[f]

\* No key of a JSON value, at any level, has the value null.
RECURSIVE NoNullKey(_)
NoNullKey(json) ==
  CASE json.tag = "dict" ->
         \A k \in DOMAIN json.v : json.v[k].tag # "None" /\ NoNullKey(json.v[k])
    [] json.tag = "list" -> \A i \in 1..Len(json.v) : NoNullKey(json.v[i])
    [] OTHER -> TRUE

\* C15: the filters payload of search_incidents, search_messages and
\* get_incident_count has exactly the fields of the filter object that were
\* given, at every nesting level, and no key with a null value; filters with
\* source_filters ["tap"] only, rows 0 and 5 and no sort parameters give
\* {startRow: 0, endRow: 5, filters: {source_filters: ["tap"]}}.
C15_PayloadHasProvidedFields ==
  payload # None =>
    LET body == Val(payload) IN
    /\ body.tag = "dict"
    /\ ("filters" \in DOMAIN body.v) <=> (ep.filters.tag = "dataclass")
    /\ ("filters" \in DOMAIN body.v) => FieldsExactlyProvided(ep.filters, body.v.filters)
    /\ NoNullKey(body)
    /\ ep.method \in {"search_incidents", "search_messages"} =>
         /\ {"startRow", "endRow"} \subseteq DOMAIN body.v
         /\ DOMAIN body.v \subseteq {"startRow", "endRow", "filters", "sortParams"}
         /\ body.v.startRow = PyInt(ep.start_row) /\ body.v.endRow = PyInt(ep.end_row)
    /\ ep.method = "get_incident_count" => DOMAIN body.v = {"filters"}
    /\ ep = EndpointCall("search_incidents",
                         IncidentFilters(PyNone, PyList(<<PyStr("tap")>>), PyNone),
                         0, 5, PyNone)
       => body = PyDict([startRow |-> PyInt(0), endRow |-> PyInt(5),
                         filters |-> PyDict([source_filters |-> PyList(<<PyStr("tap")>>)])])

\* search_messages has built the payload of a filter whose time range has a
\* start and no end, and which gives no source_filters.
C15_Witness ==
  /\ payload # None
  /\ ep.method = "search_messages"
  /\ ep.filters.tag = "dataclass"
  /\ ep.filters.v.time_range_filter.tag = "dataclass"
  /\ ep.filters.v.time_range_filter.v.end.tag = "None"
  /\ ep.filters.v.source_filters.tag = "None"
  /\ DOMAIN Val(payload).v.filters.v.time_range_filter.v = {"start"}
\* C16 as stated: after a refresh that failed the client holds no token value
\* and no expiry, whatever it held when the refresh started.
C16_FailedRefreshGivesNoToken ==
  RefreshFailed => access_token = None /\ token_expiry = None

\* C16, amended: after a refresh that failed the client is in a state in which
\* the next _ensure_valid_token refreshes again. After a failed __init__ it
\* holds no token value and no expiry; after a failed refresh inside a
\* _request it holds a token value and an expiry that has passed.
C16_FailedRefreshLeavesRefreshDue ==
  RefreshFailed =>
    /\ \/ access_token = None /\ token_expiry = None
       \/ access_token # None /\ token_expiry # None /\ now >= Val(token_expiry)
    /\ CtorEnded => access_token = None /\ token_expiry = None
    /\ RequestEnded =>
         access_token # None /\ token_expiry # None /\ now >= Val(token_expiry)

\* A _request whose refresh met a transport failure has ended; the client
\* still holds an expired token.
C16_Witness ==
  /\ RequestEnded /\ RefreshFailed
  /\ lastResult.tresp.transport
  /\ access_token # None /\ token_expiry # None
  /\ now >= Val(token_expiry)

\* The most recent successful refresh was answered with an expires_in of at
\* most 300.
ShortGrant ==
  /\ lastGrant # None
  /\ Val(lastGrant).resp.expires_in # None
  /\ Val(Val(lastGrant).resp.expires_in) <= 300

\* C17: when the token endpoint declared an expires_in of at most 300, the
\* expiry held is the refresh time plus expires_in minus 300, which is not
\* after the refresh time; a call sends its token request when it starts and
\* none later, so the call that refreshed goes on after exactly one refresh;
\* and every call that starts after such a grant sends exactly one token
\* request before its API request.
C17_ShortGrantRefreshesEveryCall ==
  [][/\ (ShortGrant /\ NoRefreshHalfDone)' =>
          LET g == Val(lastGrant') IN
          /\ token_expiry' = Some(g.at + Val(g.resp.expires_in) - 300)
          /\ Val(token_expiry') <= g.at
     /\ \A c \in Callers :
          /\ (StartsRequest(c) /\ ShortGrant) =>
               pc'[c] = "refresh_wait" /\ tokenRequests' = tokenRequests + 1
          /\ InCall(c) => tokenRequests' = tokenRequests
          /\ (pc[c] = "refresh_expiry" /\ pc'[c] # "refresh_expiry" /\ InCall(c)) =>
               pc'[c] = "header" /\ call'[c].refreshes = 1
          /\ (pc[c] = "header" /\ pc'[c] # "header" /\ InCall(c)) =>
               pc'[c] = "api_wait"]_vars

\* Both calls of a client whose every grant declared 100 seconds refreshed
\* once each, with no time passing, and the second call's API request was sent.
C17_Witness ==
  /\ RequestEnded /\ lastResult.sent = 1 /\ lastResult.refreshes = 1
  /\ lastResult.tresp.expires_in = Some(100)
  /\ calls = 2 /\ tokenRequests = 3 /\ now = 0
  /\ token_expiry = Some(0 - 200)

\* The answer of the API call that ended last was a failure.
ApiCallFailed ==
  /\ RequestEnded /\ lastResult.sent = 1
  /\ \/ lastResult.aresp.transport
     \/ 400 <= lastResult.aresp.status /\ lastResult.aresp.status < 600

\* C18: the step in which an API call fails (a status in [400, 600) or a
\* transport failure) changes neither the token value nor the expiry and sends
\* no token request; the next call, when it starts before the expiry, sends no
\* token request either and goes on with the token left untouched.
C18_ApiFailureLeavesToken ==
  [][\A c \in Callers :
       /\ (pc[c] = "api_wait" /\ ApiCallFailed') =>
            /\ access_token' = access_token
            /\ token_expiry' = token_expiry
            /\ tokenRequests' = tokenRequests
            /\ \A d \in Callers : pc'[d] # "refresh_wait"
       /\ (ApiCallFailed /\ StartsRequest(c)
           /\ token_expiry # None /\ now < Val(token_expiry)) =>
            /\ pc'[c] = "header"
            /\ tokenRequests' = tokenRequests
            /\ access_token' = access_token /\ access_token # None
            /\ token_expiry' = token_expiry]_vars

\* A call made before the expiry without a refresh was answered 401; the token
\* is that of the constructor and still valid, with calls left to make.
C18_Witness ==
  /\ ApiCallFailed /\ lastResult.aresp.status = 401
  /\ lastResult.refreshes = 0
  /\ tokenRequests = 1 /\ calls < MaxCalls
  /\ token_expiry # None /\ now < Val(token_expiry)
  /\ lastResult.header = Some(<<"Bearer ", TokenText(access_token)>>)

\* The answer the token endpoint gives caller c in this step is a failure.
RefreshFailsNow(c) ==
  /\ pc[c] = "refresh_wait" /\ pc'[c] # "refresh_wait"
  /\ LET r == IF pc'[c] = "idle" THEN lastResult'.tresp ELSE call'[c].tresp
     IN r.transport \/ r.status # 200

\* C19: from the start of a refresh to its failure (a non-200 answer or a
\* transport failure) the token value and the expiry do not change, so a
\* client that held an expired token holds the same expired token afterwards;
\* and a client that holds a token value never holds none later.
C19_FailedRefreshKeepsToken ==
  [][/\ \A c \in Callers :
          /\ (pc[c] = "idle" /\ pc'[c] = "refresh_wait" /\ InCall(c)') =>
               access_token' = access_token /\ token_expiry' = token_expiry
          /\ (pc[c] = "refresh_wait" /\ pc'[c] = "refresh_wait") =>
               access_token' = access_token /\ token_expiry' = token_expiry
          /\ RefreshFailsNow(c) =>
               /\ access_token' = access_token /\ token_expiry' = token_expiry
               /\ pc'[c] = "idle"
     /\ access_token # None => access_token' # None
     /\ token_expiry # None => token_expiry' # None]_vars

\* A _request whose refresh was answered 401 has ended, and the client holds
\* the token value and the passed expiry of the grant before.
C19_Witness ==
  /\ RequestEnded /\ RefreshFailed
  /\ lastResult.tresp.status = 401
  /\ lastGrant # None
  /\ access_token = Some(Val(lastGrant).resp.access_token)
  /\ token_expiry = Some(ExpiryOf(Val(lastGrant).at, ExpiresIn(Val(lastGrant).resp)))
  /\ now >= Val(token_expiry)
====
